---- MODULE Spec2Model ----
(***************************************************************************)
(* Model of the n8n "Secret Network" node (src/unnamed/part_000): the six  *)
(* resource handlers' per-item loop, the signed submission pipeline        *)
(* signAndBroadcastTx, and the REST gateway the handlers talk to.          *)
(*                                                                         *)
(* An execution is one call of a resource handler on a batch of items.     *)
(* Every `await helpers.httpRequest(...)` is a point where the execution   *)
(* yields: the request is appended to the execution's request log with a   *)
(* pending response, and a later step delivers the response.               *)
(***************************************************************************)
EXTENDS Integers, Sequences, FiniteSets, TLC

VARIABLES
    operation,       \* per execution: [resource, operation] read at index 0
    continueOnFail,  \* per execution: this.continueOnFail()
    nItems,          \* per execution: items.length
    pc,              \* per execution: position in the handler
    i,               \* per execution: loop variable i
    local,           \* per execution: locals of the item being processed
    requests,        \* per execution: calls of helpers.httpRequest, with responses
    returnData,      \* per execution: returnData array
    chain,           \* the network: per address, the account's sequence
    calc             \* a function of the node applied on its own: inputs and result

vars == <<operation, continueOnFail, nItems, pc, i, local, requests, returnData, chain, calc>>

----------------------------------------------------------------------------
(* Bounds *)

\* longest batch of input items
MaxItems == 2
\* largest on-chain sequence an account starts with
MaxSeq == 1

\* gas prices of SpecFee: 0.00uscrt .. 0.<MaxHundredths>uscrt
MaxHundredths == 30
\* gas limits of SpecFee: GasStep .. MaxGasSteps * GasStep
MaxGasSteps == 4
\* timeout heights of SpecIbcTransfer: -1 .. MaxTimeoutHeight
MaxTimeoutHeight == 9
\* instants of SpecIbcTransfer: Epoch .. Epoch + MaxClock milliseconds
MaxClock == 9

\* the longest balances list of a response
MaxBalances == 3

\* the most credentials a user creates
MaxCredentials == 2

Executions == {"e1", "e2"}

----------------------------------------------------------------------------
(* Private keys.  The privateKey parameter is a string, modelled as the    *)
(* sequence of its characters; Buffer.from(privateKey, 'hex') turns it     *)
(* into bytes and secp256k1.publicKeyCreate accepts or rejects the bytes.  *)

HexDigits ==
    <<"0", "1", "2", "3", "4", "5", "6", "7", "8", "9", "a", "b", "c", "d", "e", "f">>

IsHexDigit(c) == \E k \in DOMAIN HexDigits : HexDigits[k] = c

HexValue(c) == (CHOOSE k \in DOMAIN HexDigits : HexDigits[k] = c) - 1

\* Buffer.from(text, 'hex'): one byte per pair of hex digits; decoding stops
\* at the first pair that is not two hex digits, and a single trailing
\* character is dropped
BufferFromHex(text) ==
    LET n == CHOOSE n \in 0..(Len(text) \div 2) :
                 /\ \A k \in 1..(2 * n) : IsHexDigit(text[k])
                 /\ \/ n = Len(text) \div 2
                    \/ ~IsHexDigit(text[2 * n + 1])
                    \/ ~IsHexDigit(text[2 * n + 2])
    IN  [k \in 1..n |-> 16 * HexValue(text[2 * k - 1]) + HexValue(text[2 * k])]

\* length in bytes of a secp256k1 private key
KeyLength == 32

\* the order of the secp256k1 group, big-endian: a private key is a scalar
\* in 1 .. CurveOrder - 1
CurveOrder ==
    <<255, 255, 255, 255, 255, 255, 255, 255, 255, 255, 255, 255, 255, 255, 255, 254,
      186, 174, 220, 230, 175, 72, 160, 59, 191, 210, 94, 140, 208, 54, 65, 65>>

\* a < b for big-endian byte strings of the same length
BytesLess(a, b) ==
    \E k \in DOMAIN a : a[k] < b[k] /\ \A j \in 1..(k - 1) : a[j] = b[j]

\* secp256k1.publicKeyCreate(privKeyBuffer) throws: the buffer is not 32
\* bytes long, or it is not a scalar of the group
publicKeyCreateThrows(privKeyBuffer) ==
    \/ Len(privKeyBuffer) # KeyLength
    \/ \A k \in DOMAIN privKeyBuffer : privKeyBuffer[k] = 0
    \/ ~BytesLess(privKeyBuffer, CurveOrder)

\* message of the Error secp256k1.publicKeyCreate throws
KeyErrorMessage(privKeyBuffer) ==
    IF Len(privKeyBuffer) # KeyLength
    THEN "Expected private key to be an Uint8Array with length 32"
    ELSE "Private Key is invalid"

\* the text of n copies of the character c
Repeat(c, n) == [k \in 1..n |-> c]

\* two well-formed private keys: 64 hex digits, a scalar of the group
Key1 == Repeat("1", 2 * KeyLength)
Key2 == Repeat("2", 2 * KeyLength)

\* a private key is well-formed when it is exactly the hex text of a scalar
\* of the group
WellFormedKey(privateKey) ==
    /\ Len(privateKey) = 2 * KeyLength
    /\ \A k \in DOMAIN privateKey : IsHexDigit(privateKey[k])
    /\ ~publicKeyCreateThrows(BufferFromHex(privateKey))

\* malformed private keys: too short, too long, not hex ('private-key-hex'
\* of the tests), zero, not below the group order, a well-formed key
\* followed by characters that are not hex digits, and 65 hex digits
MalformedKeys ==
    { Repeat("1", 2 * KeyLength - 2),
      Repeat("1", 2 * KeyLength + 2),
      <<"p", "r", "i", "v", "a", "t", "e", "-", "k", "e", "y", "-", "h", "e", "x">>,
      Repeat("0", 2 * KeyLength),
      Repeat("f", 2 * KeyLength),
      Key1 \o <<"z", "z">>,
      Key2 \o <<"2">> }

\* private keys a caller may supply (the privateKey parameter)
Keys == {Key1, Key2} \cup MalformedKeys

\* const privKeyBuffer = Buffer.from(privateKey, 'hex'), for each of them
KeyBuffer == [privateKey \in Keys |-> BufferFromHex(privateKey)]

\* the buffers of the keys publicKeyCreate accepts
PrivKeyBuffers ==
    {KeyBuffer[privateKey] : privateKey \in
         {k \in Keys : ~publicKeyCreateThrows(KeyBuffer[k])}}

----------------------------------------------------------------------------
(* Key and address derivation *)

\* secp256k1.publicKeyCreate(privKeyBuffer)
publicKeyCreate(privKeyBuffer) == <<"secp256k1.pub", privKeyBuffer>>

\* 'secret' + hex(ripemd160(sha256(pubKey))).substring(0, 40)
getAddressFromPubKey(pubKey) == <<"secret", <<"ripemd160", <<"sha256", pubKey>>>>>>

Addresses == {getAddressFromPubKey(publicKeyCreate(b)) : b \in PrivKeyBuffers}

NoAddress == <<>>

----------------------------------------------------------------------------
(* Operations of the node *)

Operations ==
    { [resource |-> "snip721Tokens",  operation |-> "transferNft"],
      [resource |-> "snip721Tokens",  operation |-> "getOwnerOf"],
      [resource |-> "snip20Tokens",   operation |-> "transfer"],
      [resource |-> "ibcOperations",  operation |-> "ibcTransfer"],
      [resource |-> "smartContracts", operation |-> "executeContract"],
      [resource |-> "transactions",   operation |-> "broadcastTransaction"],
      [resource |-> "transactions",   operation |-> "simulateTransaction"],
      [resource |-> "transactions",   operation |-> "getTransaction"] }

NoOperation == [resource |-> "", operation |-> ""]

\* operations whose case calls signAndBroadcastTx
IsSignedOperation(op) ==
    /\ op.resource = "snip721Tokens"
    /\ op.operation \in {"transferNft", "mintNft", "approve", "approveAll"}

\* operations that build a transaction themselves and POST it with signatures: []
IsUnsignedTxOperation(op) ==
    \/ op.resource = "snip20Tokens" /\ op.operation \in
           {"transfer", "increaseAllowance", "decreaseAllowance",
            "createViewingKey", "setViewingKey"}
    \/ op.resource = "ibcOperations" /\ op.operation \in {"ibcTransfer", "updateClient"}
    \/ op.resource = "smartContracts" /\ op.operation \in
           {"executeContract", "instantiateContract", "storeCode"}

IsBroadcastTransaction(op) ==
    op.resource = "transactions" /\ op.operation = "broadcastTransaction"

IsSimulateTransaction(op) ==
    op.resource = "transactions" /\ op.operation = "simulateTransaction"

IsQueryOperation(op) ==
    /\ ~IsSignedOperation(op)
    /\ ~IsUnsignedTxOperation(op)
    /\ ~IsBroadcastTransaction(op)
    /\ ~IsSimulateTransaction(op)

\* endpoints
AccountsEndpoint == "/cosmos/auth/v1beta1/accounts/{address}"
TxsEndpoint == "/cosmos/tx/v1beta1/txs"
SimulateEndpoint == "/cosmos/tx/v1beta1/simulate"
QueryEndpoint == "query"

\* broadcast modes
Modes == {"BROADCAST_MODE_SYNC", "BROADCAST_MODE_ASYNC", "BROADCAST_MODE_BLOCK"}

\* the mode an operation that builds its own transaction hard-codes
FixedMode(op) ==
    IF op.resource = "smartContracts" THEN "BROADCAST_MODE_BLOCK" ELSE "BROADCAST_MODE_SYNC"

----------------------------------------------------------------------------
(* Credentials handed to every handler by getCredentials *)

credentials == [baseUrl |-> "https://lcd.secret.express", chainId |-> "secret-4"]

\* credentials.chainId || 'secret-4'
ChainIdOrDefault(chainId) == IF chainId = "" THEN "secret-4" ELSE chainId

----------------------------------------------------------------------------
(* HTTP responses.  A response is pending until the gateway answers; then  *)
(* it is resolved (httpRequest returns the body) or rejected (httpRequest  *)
(* throws).  Missing marks a field the body does not carry.                *)

Missing == -1

NoCode == -1

PendingResponse ==
    [state |-> "pending", account |-> "none", sequence |-> Missing,
     account_number |-> Missing, code |-> NoCode]

\* httpRequest throws an Error (connectivity, timeout, HTTP error status)
RejectedResponse ==
    [state |-> "rejected", account |-> "none", sequence |-> Missing,
     account_number |-> Missing, code |-> NoCode]

\* a body without tx_response and without account (a query result)
PlainResponse ==
    [state |-> "resolved", account |-> "none", sequence |-> Missing,
     account_number |-> Missing, code |-> NoCode]

\* { account: { sequence, account_number } }; either field may be Missing
AccountBody(sequence, account_number) ==
    [state |-> "resolved", account |-> "present", sequence |-> sequence,
     account_number |-> account_number, code |-> NoCode]

\* a body that carries no account object at all
NoAccountBody ==
    [state |-> "resolved", account |-> "absent", sequence |-> Missing,
     account_number |-> Missing, code |-> NoCode]

\* { tx_response: { txhash, code } }
TxResponseBody(code) ==
    [state |-> "resolved", account |-> "none", sequence |-> Missing,
     account_number |-> Missing, code |-> code]

\* error.message of the Error a rejected httpRequest throws
ApiErrorMessage == "API Error"

\* message of the TypeError thrown by accountResponse.account.sequence
\* when the body has no account
TypeErrorMessage == "Cannot read properties of undefined (reading 'sequence')"

----------------------------------------------------------------------------
(* The network (REST gateway and chain) *)

\* result codes of a broadcast
CodeOk == 0
CodeInsufficientFunds == 5
CodeNoSignatures == 15
CodeSequenceMismatch == 32

\* account_number the chain assigned to an address (never 0 here, so that a
\* defaulted '0' differs from every account number the network returns)
AccountNumberOf(address) ==
    IF address = getAddressFromPubKey(publicKeyCreate(KeyBuffer[Key1])) THEN 1 ELSE 2

\* GET /cosmos/auth/v1beta1/accounts/{address}: the request may fail, the
\* body may lack the account, may carry the account's current sequence and
\* account number, or may carry an account object without these two fields
\* (account types that nest them in base_account).
AccountResponses(address) ==
    { RejectedResponse,
      NoAccountBody,
      AccountBody(chain[address], AccountNumberOf(address)),
      AccountBody(Missing, Missing) }

\* POST /cosmos/tx/v1beta1/txs: the outcomes the network can produce for a
\* transaction, each with the response and whether the transaction was
\* accepted (which consumes the signer's sequence).
BroadcastOutcomes(tx) ==
    IF tx.kind = "txBytes"
    THEN { [response |-> RejectedResponse, accepted |-> FALSE],
           [response |-> TxResponseBody(CodeOk), accepted |-> FALSE],
           [response |-> TxResponseBody(CodeInsufficientFunds), accepted |-> FALSE] }
    ELSE IF tx.signatures = <<>>
    THEN { [response |-> RejectedResponse, accepted |-> FALSE],
           [response |-> TxResponseBody(CodeNoSignatures), accepted |-> FALSE] }
    ELSE IF tx.auth_info.signer_infos[1].sequence = chain[tx.body.messages[1].sender]
    THEN { [response |-> RejectedResponse, accepted |-> FALSE],
           [response |-> TxResponseBody(CodeOk), accepted |-> TRUE],
           [response |-> TxResponseBody(CodeInsufficientFunds), accepted |-> FALSE] }
    ELSE { [response |-> RejectedResponse, accepted |-> FALSE],
           [response |-> TxResponseBody(CodeSequenceMismatch), accepted |-> FALSE] }

\* the chain after an outcome: an accepted transaction increments the
\* sender's sequence by exactly one
ChainAfter(tx, outcome) ==
    IF outcome.accepted
    THEN [chain EXCEPT ![tx.body.messages[1].sender] = @ + 1]
    ELSE chain

----------------------------------------------------------------------------
(* Numbers.  A JavaScript number is an IEEE-754 double.  Naturals beyond   *)
(* the range of the model checker's integers are sequences of limbs in     *)
(* base 2^LimbBits, least significant limb first and the last limb not 0;  *)
(* a double is m * 2^e with m such a natural of at most Precision bits.    *)

\* bits of the significand of a double
Precision == 53

\* bits of a limb
LimbBits == 10

Base == 2^LimbBits

RECURSIVE LimbsOf(_)
LimbsOf(n) == IF n = 0 THEN <<>> ELSE <<n % Base>> \o LimbsOf(n \div Base)

RECURSIVE IntOf(_)
IntOf(limbs) == IF limbs = <<>> THEN 0 ELSE limbs[1] + Base * IntOf(Tail(limbs))

\* the natural without zero limbs at its high end
RECURSIVE Trim(_)
Trim(limbs) ==
    IF limbs # <<>> /\ limbs[Len(limbs)] = 0
    THEN Trim(SubSeq(limbs, 1, Len(limbs) - 1))
    ELSE limbs

\* limbs * n + carry, for n and carry below 2^20
RECURSIVE MulSmall(_, _, _)
MulSmall(limbs, n, carry) ==
    IF limbs = <<>>
    THEN LimbsOf(carry)
    ELSE LET t == limbs[1] * n + carry
         IN  <<t % Base>> \o MulSmall(Tail(limbs), n, t \div Base)

\* limbs + n
AddSmall(limbs, n) == MulSmall(limbs, 1, n)

\* quotient (not trimmed) and remainder of limbs by d, for d below 2^20
RECURSIVE DivSmall(_, _)
DivSmall(limbs, d) ==
    IF limbs = <<>>
    THEN [q |-> <<>>, r |-> 0]
    ELSE LET high == DivSmall(Tail(limbs), d)
             t == high.r * Base + limbs[1]
         IN  [q |-> <<t \div d>> \o high.q, r |-> t % d]

\* limbs * 2^n
ShiftLeft(limbs, n) ==
    IF limbs = <<>>
    THEN <<>>
    ELSE [k \in 1..(n \div LimbBits) |-> 0]
             \o Trim(MulSmall(limbs, 2^(n % LimbBits), 0))

\* limbs \div 2^n
ShiftRight(limbs, n) ==
    Trim(DivSmall(SubSeq(limbs, n \div LimbBits + 1, Len(limbs)), 2^(n % LimbBits)).q)

\* bit k of the natural, bit 0 the least significant
Bit(limbs, k) ==
    IF k \div LimbBits >= Len(limbs)
    THEN 0
    ELSE (limbs[k \div LimbBits + 1] \div 2^(k % LimbBits)) % 2

\* the number of bits of the natural
BitLength(limbs) ==
    IF limbs = <<>>
    THEN 0
    ELSE LimbBits * (Len(limbs) - 1)
             + (CHOOSE b \in 1..LimbBits :
                    2^(b - 1) <= limbs[Len(limbs)] /\ limbs[Len(limbs)] < 2^b)

\* a < b for naturals
Less(a, b) ==
    \/ Len(a) < Len(b)
    \/ /\ Len(a) = Len(b)
       /\ \E k \in DOMAIN a :
             /\ a[k] < b[k]
             /\ \A j \in (k + 1)..Len(a) : a[j] = b[j]

RECURSIVE Pow10(_)
Pow10(k) == IF k = 0 THEN 1 ELSE 10 * Pow10(k - 1)

\* the double nearest to limbs * 2^e (plus a non-zero fraction of the last
\* bit when sticky), ties to the even significand
RoundToDouble(limbs, e, sticky) ==
    LET drop == BitLength(limbs) - Precision
    IN  IF drop <= 0
        THEN [m |-> limbs, e |-> e]
        ELSE LET kept == ShiftRight(limbs, drop)
                 rest == sticky \/ \E k \in 0..(drop - 2) : Bit(limbs, k) = 1
                 up == Bit(limbs, drop - 1) = 1 /\ (rest \/ Bit(kept, 0) = 1)
                 m == IF up THEN AddSmall(kept, 1) ELSE kept
             IN  IF BitLength(m) > Precision
                 THEN [m |-> ShiftRight(m, 1), e |-> e + drop + 1]
                 ELSE [m |-> m, e |-> e + drop]

\* the double of a natural
DoubleOf(limbs) == RoundToDouble(limbs, 0, FALSE)

\* the value parseFloat gives a text that does not start with a number
NaN == [m |-> <<>>, e |-> -1]

\* x * y for a double x and a natural y below 2^20 (exactly a double)
DoubleTimes(x, y) ==
    IF x = NaN THEN NaN ELSE RoundToDouble(Trim(MulSmall(x.m, y, 0)), x.e, FALSE)

\* Math.ceil(x), as a natural
Ceil(x) ==
    IF x.e >= 0
    THEN ShiftLeft(x.m, x.e)
    ELSE IF \E k \in 0..(-x.e - 1) : Bit(x.m, k) = 1
    THEN AddSmall(ShiftRight(x.m, -x.e), 1)
    ELSE ShiftRight(x.m, -x.e)

----------------------------------------------------------------------------
(* Texts are sequences of characters *)

Digits == <<"0", "1", "2", "3", "4", "5", "6", "7", "8", "9">>

IsDigit(c) == \E k \in DOMAIN Digits : Digits[k] = c

DigitValue(c) == (CHOOSE k \in DOMAIN Digits : Digits[k] = c) - 1

\* text.replace(pattern, ''): the first occurrence of pattern is removed
ReplaceFirst(text, pattern) ==
    LET n == Len(pattern)
        starts == {k \in 1..(Len(text) - n + 1) : SubSeq(text, k, k + n - 1) = pattern}
    IN  IF starts = {}
        THEN text
        ELSE LET k == CHOOSE k \in starts : \A j \in starts : k <= j
             IN  SubSeq(text, 1, k - 1) \o SubSeq(text, k + n, Len(text))

\* the number of digits the text starts with
RECURSIVE LeadingDigits(_)
LeadingDigits(text) ==
    IF text = <<>> \/ ~IsDigit(text[1]) THEN 0 ELSE 1 + LeadingDigits(Tail(text))

\* the natural written by a text of digits
RECURSIVE NaturalOf(_)
NaturalOf(digits) ==
    IF digits = <<>>
    THEN <<>>
    ELSE Trim(MulSmall(NaturalOf(SubSeq(digits, 1, Len(digits) - 1)), 10,
                       DigitValue(digits[Len(digits)])))

\* parseFloat(text) for an unsigned decimal: the longest prefix of the form
\* digits[.digits] is read and rounded to the nearest double; NaN when the
\* text does not start with a digit or a point followed by a digit
parseFloat(text) ==
    LET a == LeadingDigits(text)
        b == IF a < Len(text) /\ text[a + 1] = "."
             THEN LeadingDigits(SubSeq(text, a + 2, Len(text)))
             ELSE 0
        n == NaturalOf(SubSeq(text, 1, a) \o SubSeq(text, a + 2, a + 1 + b))
        s == 64 + 4 * b
        scaled == DivSmall(ShiftLeft(n, s), Pow10(b))
    IN  IF a + b = 0
        THEN NaN
        ELSE IF n = <<>>
        THEN DoubleOf(<<>>)
        ELSE RoundToDouble(Trim(scaled.q), -s, scaled.r # 0)

----------------------------------------------------------------------------
(* Transactions *)

\* the text 'uscrt'
Uscrt == <<"u", "s", "c", "r", "t">>

\* the number a fee that is not a number stands for ('NaN')
NotANumber == -1

\* authInfo.fee of signAndBroadcastTx: amount is
\* Math.ceil(gasLimit * parseFloat(gasPrice.replace('uscrt', ''))).toString()
\* in denom 'uscrt', gas_limit is gasLimit.toString()
Fee(gasLimit, gasPrice) ==
    LET price == parseFloat(ReplaceFirst(gasPrice, Uscrt))
    IN  [amount |-> << [denom |-> Uscrt,
                        amount |-> IF price = NaN
                                   THEN NotANumber
                                   ELSE IntOf(Ceil(DoubleTimes(price, gasLimit)))] >>,
         gas_limit |-> gasLimit]

\* the fallbacks of getNodeParameter('gasLimit', i, 200000) and
\* getNodeParameter('gasPrice', i, '0.25uscrt')
DefaultGasLimit == 200000
DefaultGasPrice == <<"0", ".", "2", "5">> \o Uscrt

\* the fee of the default gas limit and gas price
DefaultFee == Fee(DefaultGasLimit, DefaultGasPrice)

NoFee == [amount |-> <<>>, gas_limit |-> Missing]

NoAuthInfo == [signer_infos |-> <<>>, fee |-> NoFee]

NoTx ==
    [kind |-> "none", body |-> [messages |-> <<>>], auth_info |-> NoAuthInfo,
     signatures |-> <<>>, tx_bytes |-> ""]

\* const sequence = accountResponse.account.sequence || '0'
SequenceOrDefault(sequence) == IF sequence = Missing THEN 0 ELSE sequence

\* const accountNumber = accountResponse.account.account_number || '0'
AccountNumberOrDefault(account_number) ==
    IF account_number = Missing THEN 0 ELSE account_number

\* a txBody whose sender is the address of the credentials, as in the
\* operations that build their own transaction, here the address of Key1
TxBodyCredentialsSender(address, contractAddress, executeMsg) ==
    [messages |-> << [type |-> "/secret.compute.v1beta1.MsgExecuteContract",
                      sender |-> getAddressFromPubKey(publicKeyCreate(KeyBuffer[Key1])),
                      contract |-> contractAddress,
                      msg |-> executeMsg] >>]

\* txBody of signAndBroadcastTx: one MsgExecuteContract sent by address
TxBody(address, contractAddress, executeMsg) ==
    [messages |-> << [type |-> "/secret.compute.v1beta1.MsgExecuteContract",
                      sender |-> address,
                      contract |-> contractAddress,
                      msg |-> executeMsg] >>]

\* authInfo.signer_infos of signAndBroadcastTx
SignerInfos(pubKey, sequence) ==
    << [public_key |-> pubKey, mode |-> "SIGN_MODE_DIRECT", sequence |-> sequence] >>

\* authInfo of signAndBroadcastTx
AuthInfo(pubKey, sequence, fee) ==
    [signer_infos |-> SignerInfos(pubKey, sequence), fee |-> fee]

\* signDoc of signAndBroadcastTx
SignDoc(txBody, authInfo, chainId, accountNumber) ==
    [body_bytes |-> txBody, auth_info_bytes |-> authInfo,
     chain_id |-> ChainIdOrDefault(chainId), account_number |-> accountNumber]

\* secp256k1.ecdsaSign(sha256(JSON.stringify(signDoc)), privKeyBuffer)
ecdsaSign(signDoc, privKeyBuffer) ==
    [key |-> privKeyBuffer, hash |-> <<"sha256", signDoc>>]

\* a txRaw whose placeholder signature '' is kept and the signature pushed
\* after it
SignedTxRawPush(chainId, contractAddress, executeMsg, privKeyBuffer, fee, accountResponse) ==
    LET pubKey == publicKeyCreate(privKeyBuffer)
        address == getAddressFromPubKey(pubKey)
        sequence == SequenceOrDefault(accountResponse.sequence)
        accountNumber == AccountNumberOrDefault(accountResponse.account_number)
        txBody == TxBody(address, contractAddress, executeMsg)
        authInfo == AuthInfo(pubKey, sequence, fee)
        signDoc == SignDoc(txBody, authInfo, chainId, accountNumber)
    IN  [kind |-> "txRaw", body |-> txBody, auth_info |-> authInfo,
         signatures |-> << [key |-> <<>>, hash |-> <<>>],
                           ecdsaSign(signDoc, privKeyBuffer) >>,
         tx_bytes |-> ""]

\* a txRaw whose signature is made over the digest of the body alone
SignedTxRawSignsBody(chainId, contractAddress, executeMsg, privKeyBuffer, fee, accountResponse) ==
    LET pubKey == publicKeyCreate(privKeyBuffer)
        address == getAddressFromPubKey(pubKey)
        sequence == SequenceOrDefault(accountResponse.sequence)
        txBody == TxBody(address, contractAddress, executeMsg)
        authInfo == AuthInfo(pubKey, sequence, fee)
    IN  [kind |-> "txRaw", body |-> txBody, auth_info |-> authInfo,
         signatures |-> << ecdsaSign(txBody, privKeyBuffer) >>, tx_bytes |-> ""]

\* txRaw of signAndBroadcastTx after txRaw.signatures = [signature]
SignedTxRaw(chainId, contractAddress, executeMsg, privKeyBuffer, fee, accountResponse) ==
    LET pubKey == publicKeyCreate(privKeyBuffer)
        address == getAddressFromPubKey(pubKey)
        sequence == SequenceOrDefault(accountResponse.sequence)
        accountNumber == AccountNumberOrDefault(accountResponse.account_number)
        txBody == TxBody(address, contractAddress, executeMsg)
        authInfo == AuthInfo(pubKey, sequence, fee)
        signDoc == SignDoc(txBody, authInfo, chainId, accountNumber)
    IN  [kind |-> "txRaw", body |-> txBody, auth_info |-> authInfo,
         signatures |-> << ecdsaSign(signDoc, privKeyBuffer) >>, tx_bytes |-> ""]

\* the contractAddress parameter and the message transferNft builds from
\* its tokenId and recipient parameters
ContractAddress == "secret1contract"
TransferNftMsg == [transfer_nft |-> [recipient |-> "secret1recipient", token_id |-> "1"]]

\* the transaction an operation builds itself: signer_infos: [], signatures: []
UnsignedTx(sender) ==
    [kind |-> "tx", body |-> [messages |-> << [sender |-> sender] >>],
     auth_info |-> NoAuthInfo, signatures |-> <<>>, tx_bytes |-> ""]

\* the txBytes parameter of broadcastTransaction and simulateTransaction
TxBytesValues == {"CgA=", "CgIIAQ=="}

\* tx_bytes handed in by the caller of broadcastTransaction
CallerTxBytes(txBytes) ==
    [kind |-> "txBytes", body |-> [messages |-> <<>>], auth_info |-> NoAuthInfo,
     signatures |-> <<>>, tx_bytes |-> txBytes]

\* the txData parameter of simulateTransaction: empty, the JSON text of a
\* transaction, and a text that is not JSON
TxDataValues == {"", "{\"body\":{\"messages\":[]}}", "{\"body\":"}

\* JSON.parse(txData) throws a SyntaxError
JsonParseThrows(txData) == txData = "{\"body\":"

\* message of the SyntaxError
JsonErrorMessage == "Unexpected end of JSON input"

\* JSON.parse(txData) of the JSON text of TxDataValues
ParsedTx ==
    [kind |-> "json", body |-> [messages |-> <<>>], auth_info |-> NoAuthInfo,
     signatures |-> <<>>, tx_bytes |-> ""]

\* the body of the request of simulateTransaction: tx_bytes when txBytes is
\* not empty, else tx when txData is not empty, else nothing
SimulateBody(txData, txBytes) ==
    IF txBytes # "" THEN CallerTxBytes(txBytes)
    ELSE IF txData # "" THEN ParsedTx
    ELSE NoTx

\* the sender of the first message of a transaction
SenderOf(tx) == tx.body.messages[1].sender

----------------------------------------------------------------------------
(* Requests and output entries *)

Request(item, method, endpoint, address, mode, tx) ==
    [item |-> item, method |-> method, endpoint |-> endpoint, address |-> address,
     mode |-> mode, tx |-> tx, response |-> PendingResponse]

\* the log with the response of the request in flight (the last one) filled in
Respond(log, response) == [log EXCEPT ![Len(log)].response = response]

\* returnData.push({ json: result, pairedItem: { item: i } })
ResultEntry(item, result) ==
    [pairedItem |-> item, failed |-> FALSE, error |-> "", json |-> result]

\* returnData.push({ json: { error: error.message }, pairedItem: { item: i } })
ErrorEntry(item, message) ==
    [pairedItem |-> item, failed |-> TRUE, error |-> message, json |-> PendingResponse]

\* the locals before an item's parameters are read
NoLocal == [privateKey |-> <<>>, address |-> NoAddress, txBytes |-> "", mode |-> ""]

----------------------------------------------------------------------------
(* The handlers' loop body: try { ... push } catch { ... } *)

\* the item's case ran to its end with result: push it and go on with i + 1
Push(e, log, result) ==
    /\ requests' = [requests EXCEPT ![e] = log]
    /\ returnData' = [returnData EXCEPT ![e] = Append(@, ResultEntry(i[e], result))]
    /\ i' = [i EXCEPT ![e] = @ + 1]
    /\ pc' = [pc EXCEPT ![e] = "loop"]
    /\ local' = [local EXCEPT ![e] = NoLocal]

\* a catch block that reports the failed item and then leaves the loop
CatchBreak(e, log, message) ==
    /\ requests' = [requests EXCEPT ![e] = log]
    /\ local' = [local EXCEPT ![e] = NoLocal]
    /\ IF continueOnFail[e]
       THEN /\ returnData' = [returnData EXCEPT ![e] = Append(@, ErrorEntry(i[e], message))]
            /\ i' = [i EXCEPT ![e] = nItems[e]]
            /\ pc' = [pc EXCEPT ![e] = "loop"]
       ELSE /\ pc' = [pc EXCEPT ![e] = "thrown"]
            /\ UNCHANGED <<returnData, i>>

\* a catch block that never rethrows
CatchContinue(e, log, message) ==
    /\ requests' = [requests EXCEPT ![e] = log]
    /\ local' = [local EXCEPT ![e] = NoLocal]
    /\ returnData' = [returnData EXCEPT ![e] = Append(@, ErrorEntry(i[e], message))]
    /\ i' = [i EXCEPT ![e] = @ + 1]
    /\ pc' = [pc EXCEPT ![e] = "loop"]

\* a catch block that, in abort mode, leaves the loop and lets the handler
\* return the entries gathered so far
CatchReturnsPartial(e, log, message) ==
    /\ requests' = [requests EXCEPT ![e] = log]
    /\ local' = [local EXCEPT ![e] = NoLocal]
    /\ pc' = [pc EXCEPT ![e] = "loop"]
    /\ IF continueOnFail[e]
       THEN /\ returnData' = [returnData EXCEPT ![e] = Append(@, ErrorEntry(i[e], message))]
            /\ i' = [i EXCEPT ![e] = @ + 1]
       ELSE /\ i' = [i EXCEPT ![e] = nItems[e]]
            /\ UNCHANGED returnData

\* a catch block that leaves the item's locals, the private key among them,
\* where the next item and the caller find them
CatchRetains(e, log, message) ==
    /\ requests' = [requests EXCEPT ![e] = log]
    /\ UNCHANGED local
    /\ IF continueOnFail[e]
       THEN /\ returnData' = [returnData EXCEPT ![e] = Append(@, ErrorEntry(i[e], message))]
            /\ i' = [i EXCEPT ![e] = @ + 1]
            /\ pc' = [pc EXCEPT ![e] = "loop"]
       ELSE /\ pc' = [pc EXCEPT ![e] = "thrown"]
            /\ UNCHANGED <<returnData, i>>

\* the item's case threw an error with this message: the catch block
Catch(e, log, message) ==
    /\ requests' = [requests EXCEPT ![e] = log]
    /\ local' = [local EXCEPT ![e] = NoLocal]
    /\ IF continueOnFail[e]
       THEN /\ returnData' = [returnData EXCEPT ![e] = Append(@, ErrorEntry(i[e], message))]
            /\ i' = [i EXCEPT ![e] = @ + 1]
            /\ pc' = [pc EXCEPT ![e] = "loop"]
       ELSE /\ pc' = [pc EXCEPT ![e] = "thrown"]
            /\ UNCHANGED <<returnData, i>>

----------------------------------------------------------------------------
(* signAndBroadcastTx *)

\* a lookup whose rejection is swallowed: only the missing account throws
AccountLookupThrowsSwallowed(accountResponse) ==
    /\ accountResponse.state = "resolved"
    /\ accountResponse.account # "present"

\* the account lookup's outcome makes signAndBroadcastTx throw: httpRequest
\* rejected, or accountResponse.account is undefined
AccountLookupThrows(accountResponse) ==
    \/ accountResponse.state = "rejected"
    \/ accountResponse.account # "present"

\* an item of a signed operation starts: derive the address from the item's
\* private key and send the account lookup
SignAndBroadcastTx(e) ==
    /\ pc[e] = "loop"
    /\ i[e] < nItems[e]
    /\ IsSignedOperation(operation[e])
    /\ \E privateKey \in Keys :
         LET privKeyBuffer == KeyBuffer[privateKey]
             address == getAddressFromPubKey(publicKeyCreate(privKeyBuffer))
         IN  IF publicKeyCreateThrows(privKeyBuffer)
             THEN Catch(e, requests[e], KeyErrorMessage(privKeyBuffer))
             ELSE /\ local' = [local EXCEPT ![e] =
                        [NoLocal EXCEPT !.privateKey = privateKey, !.address = address]]
                  /\ requests' = [requests EXCEPT ![e] =
                        Append(@, Request(i[e], "GET", AccountsEndpoint, address, "", NoTx))]
                  /\ pc' = [pc EXCEPT ![e] = "awaitAccount"]
                  /\ UNCHANGED <<i, returnData>>
    /\ UNCHANGED <<calc, operation, continueOnFail, nItems, chain>>

\* the account lookup answers: throw, or build, sign and send the broadcast
AccountResponse(e) ==
    /\ pc[e] = "awaitAccount"
    /\ \E accountResponse \in AccountResponses(local[e].address) :
         LET log == Respond(requests[e], accountResponse)
         IN  IF AccountLookupThrows(accountResponse)
             THEN Catch(e, log,
                        IF accountResponse.state = "rejected"
                        THEN ApiErrorMessage ELSE TypeErrorMessage)
             ELSE /\ requests' = [requests EXCEPT ![e] =
                        Append(log, Request(i[e], "POST", TxsEndpoint, NoAddress,
                                            "BROADCAST_MODE_SYNC",
                                            SignedTxRaw(credentials.chainId, ContractAddress,
                                                        TransferNftMsg,
                                                        KeyBuffer[local[e].privateKey],
                                                        DefaultFee, accountResponse)))]
                  /\ pc' = [pc EXCEPT ![e] = "awaitBroadcast"]
                  /\ UNCHANGED <<local, i, returnData>>
    /\ UNCHANGED <<calc, operation, continueOnFail, nItems, chain>>

\* a broadcast that is sent once more when the request is rejected
BroadcastResponseRetry(e) ==
    /\ pc[e] = "awaitBroadcast"
    /\ LET request == requests[e][Len(requests[e])]
           tries == Cardinality({k \in DOMAIN requests[e] :
                                    /\ requests[e][k].item = i[e]
                                    /\ requests[e][k].endpoint = TxsEndpoint})
       IN  \E outcome \in BroadcastOutcomes(request.tx) :
             /\ chain' = ChainAfter(request.tx, outcome)
             /\ IF outcome.response.state = "rejected"
                THEN IF tries < 2
                     THEN /\ requests' = [requests EXCEPT ![e] =
                                Append(Respond(requests[e], outcome.response),
                                       [request EXCEPT !.response = PendingResponse])]
                          /\ UNCHANGED <<pc, i, local, returnData>>
                     ELSE Catch(e, Respond(requests[e], outcome.response), ApiErrorMessage)
                ELSE Push(e, Respond(requests[e], outcome.response), outcome.response)
    /\ UNCHANGED <<calc, operation, continueOnFail, nItems>>

\* a pipeline that returns the response of the account lookup
BroadcastResponseReturnsAccount(e) ==
    /\ pc[e] = "awaitBroadcast"
    /\ LET tx == requests[e][Len(requests[e])].tx
       IN  \E outcome \in BroadcastOutcomes(tx) :
             /\ chain' = ChainAfter(tx, outcome)
             /\ IF outcome.response.state = "rejected"
                THEN Catch(e, Respond(requests[e], outcome.response), ApiErrorMessage)
                ELSE Push(e, Respond(requests[e], outcome.response),
                          requests[e][Len(requests[e]) - 1].response)
    /\ UNCHANGED <<calc, operation, continueOnFail, nItems>>

\* the broadcast answers: return the response, or throw
BroadcastResponse(e) ==
    /\ pc[e] = "awaitBroadcast"
    /\ LET tx == requests[e][Len(requests[e])].tx
       IN  \E outcome \in BroadcastOutcomes(tx) :
             /\ chain' = ChainAfter(tx, outcome)
             /\ IF outcome.response.state = "rejected"
                THEN Catch(e, Respond(requests[e], outcome.response), ApiErrorMessage)
                ELSE Push(e, Respond(requests[e], outcome.response), outcome.response)
    /\ UNCHANGED <<calc, operation, continueOnFail, nItems>>

----------------------------------------------------------------------------
(* The other operations: one request per item *)

\* an item of an operation that builds its own transaction starts: POST the
\* transaction with signatures: []
SendUnsignedTx(e) ==
    /\ pc[e] = "loop"
    /\ i[e] < nItems[e]
    /\ IsUnsignedTxOperation(operation[e])
    /\ \E sender \in Addresses :
         requests' = [requests EXCEPT ![e] =
             Append(@, Request(i[e], "POST", TxsEndpoint, NoAddress,
                               FixedMode(operation[e]),
                               UnsignedTx(IF operation[e].resource = "snip20Tokens"
                                          THEN NoAddress ELSE sender)))]
    /\ pc' = [pc EXCEPT ![e] = "awaitResult"]
    /\ UNCHANGED <<calc, operation, continueOnFail, nItems, i, local, returnData, chain>>

\* a broadcastTransaction that sends BROADCAST_MODE_SYNC whatever the mode
\* parameter is, as the operations that build their own transaction do
BroadcastTransactionSync(e) ==
    /\ pc[e] = "loop"
    /\ i[e] < nItems[e]
    /\ IsBroadcastTransaction(operation[e])
    /\ \E txBytes \in TxBytesValues, mode \in Modes :
         /\ local' = [local EXCEPT ![e] =
                [NoLocal EXCEPT !.txBytes = txBytes, !.mode = mode]]
         /\ requests' = [requests EXCEPT ![e] =
                Append(@, Request(i[e], "POST", TxsEndpoint, NoAddress,
                                  "BROADCAST_MODE_SYNC", CallerTxBytes(txBytes)))]
    /\ pc' = [pc EXCEPT ![e] = "awaitResult"]
    /\ UNCHANGED <<calc, operation, continueOnFail, nItems, i, returnData, chain>>

\* an item of broadcastTransaction starts: POST the caller's tx_bytes with
\* the caller's mode
BroadcastTransaction(e) ==
    /\ pc[e] = "loop"
    /\ i[e] < nItems[e]
    /\ IsBroadcastTransaction(operation[e])
    /\ \E txBytes \in TxBytesValues, mode \in Modes :
         /\ local' = [local EXCEPT ![e] =
                [NoLocal EXCEPT !.txBytes = txBytes, !.mode = mode]]
         /\ requests' = [requests EXCEPT ![e] =
                Append(@, Request(i[e], "POST", TxsEndpoint, NoAddress, mode,
                                  CallerTxBytes(txBytes)))]
    /\ pc' = [pc EXCEPT ![e] = "awaitResult"]
    /\ UNCHANGED <<calc, operation, continueOnFail, nItems, i, returnData, chain>>

\* an item of simulateTransaction starts: build the body from txBytes or
\* txData (JSON.parse may throw) and POST it
SimulateTransaction(e) ==
    /\ pc[e] = "loop"
    /\ i[e] < nItems[e]
    /\ IsSimulateTransaction(operation[e])
    /\ \E txData \in TxDataValues, txBytes \in TxBytesValues \cup {""} :
         IF txBytes = "" /\ txData # "" /\ JsonParseThrows(txData)
         THEN Catch(e, requests[e], JsonErrorMessage)
         ELSE /\ requests' = [requests EXCEPT ![e] =
                    Append(@, Request(i[e], "POST", SimulateEndpoint, NoAddress, "",
                                      SimulateBody(txData, txBytes)))]
              /\ pc' = [pc EXCEPT ![e] = "awaitResult"]
              /\ UNCHANGED <<i, local, returnData>>
    /\ UNCHANGED <<calc, operation, continueOnFail, nItems, chain>>

\* an item of a read operation starts: send the query
Query(e) ==
    /\ pc[e] = "loop"
    /\ i[e] < nItems[e]
    /\ IsQueryOperation(operation[e])
    /\ requests' = [requests EXCEPT ![e] =
           Append(@, Request(i[e],
                             IF operation[e].resource = "snip721Tokens" THEN "POST" ELSE "GET",
                             QueryEndpoint, NoAddress, "", NoTx))]
    /\ pc' = [pc EXCEPT ![e] = "awaitResult"]
    /\ UNCHANGED <<calc, operation, continueOnFail, nItems, i, local, returnData, chain>>

\* the outcomes of the request in flight of a one-request operation
RequestOutcomes(request) ==
    IF request.endpoint = TxsEndpoint
    THEN BroadcastOutcomes(request.tx)
    ELSE { [response |-> RejectedResponse, accepted |-> FALSE],
           [response |-> PlainResponse, accepted |-> FALSE] }

\* the request of a one-request operation answers: push the response, or throw
RequestResponse(e) ==
    /\ pc[e] = "awaitResult"
    /\ LET request == requests[e][Len(requests[e])]
       IN  \E outcome \in RequestOutcomes(request) :
             /\ chain' = ChainAfter(request.tx, outcome)
             /\ IF outcome.response.state = "rejected"
                THEN Catch(e, Respond(requests[e], outcome.response), ApiErrorMessage)
                ELSE Push(e, Respond(requests[e], outcome.response), outcome.response)
    /\ UNCHANGED <<calc, operation, continueOnFail, nItems>>

\* the loop ends: return returnData
Return(e) ==
    /\ pc[e] = "loop"
    /\ i[e] = nItems[e]
    /\ pc' = [pc EXCEPT ![e] = "returned"]
    /\ UNCHANGED <<calc, operation, continueOnFail, nItems, i, local, requests, returnData, chain>>

----------------------------------------------------------------------------
(* Specifications *)

\* no function is being applied on its own
NoCalc == [function |-> "none"]

\* the state every execution starts its handler in
InitCommon ==
    /\ i = [e \in Executions |-> 0]
    /\ local = [e \in Executions |-> NoLocal]
    /\ requests = [e \in Executions |-> <<>>]
    /\ returnData = [e \in Executions |-> <<>>]
    /\ chain \in [Addresses -> 0..MaxSeq]
    /\ calc = NoCalc

\* one execution: any operation, either failure mode, a batch of up to
\* MaxItems items
Init ==
    /\ InitCommon
    /\ \E op \in Operations :
         operation = [e \in Executions |-> IF e = "e1" THEN op ELSE NoOperation]
    /\ \E cof \in BOOLEAN :
         continueOnFail = [e \in Executions |-> IF e = "e1" THEN cof ELSE FALSE]
    /\ \E n \in 0..MaxItems :
         nItems = [e \in Executions |-> IF e = "e1" THEN n ELSE 0]
    /\ pc = [e \in Executions |-> IF e = "e1" THEN "loop" ELSE "idle"]

Next ==
    \E e \in Executions :
        \/ SignAndBroadcastTx(e)
        \/ AccountResponse(e)
        \/ BroadcastResponse(e)
        \/ SendUnsignedTx(e)
        \/ BroadcastTransaction(e)
        \/ SimulateTransaction(e)
        \/ Query(e)
        \/ RequestResponse(e)
        \/ Return(e)

Spec == Init /\ [][Next]_vars

\* the same executions, when every request is eventually answered and the
\* handler's continuation is eventually run: await resumes the handler once
\* its promise settles
SpecFair == Init /\ [][Next]_vars /\ WF_vars(Next)

\* two executions of signed operations running at the same time, each with
\* a batch of one item: two signed submissions in flight together
InitConcurrent ==
    /\ InitCommon
    /\ operation \in [Executions -> {op \in Operations : IsSignedOperation(op)}]
    /\ continueOnFail \in [Executions -> BOOLEAN]
    /\ nItems = [e \in Executions |-> 1]
    /\ pc = [e \in Executions |-> "loop"]

NextConcurrent ==
    \E e \in Executions :
        \/ SignAndBroadcastTx(e)
        \/ AccountResponse(e)
        \/ BroadcastResponse(e)
        \/ Return(e)

SpecConcurrent == InitConcurrent /\ [][NextConcurrent]_vars

----------------------------------------------------------------------------
(* Functions of the node applied on their own.  No handler runs; calc      *)
(* holds the function's inputs and, once it was applied, its result.       *)

\* no handler runs
InitIdle ==
    /\ operation = [e \in Executions |-> NoOperation]
    /\ continueOnFail = [e \in Executions |-> FALSE]
    /\ nItems = [e \in Executions |-> 0]
    /\ pc = [e \in Executions |-> "idle"]
    /\ i = [e \in Executions |-> 0]
    /\ local = [e \in Executions |-> NoLocal]
    /\ requests = [e \in Executions |-> <<>>]
    /\ returnData = [e \in Executions |-> <<>>]
    /\ chain = [address \in Addresses |-> 0]

Idle == UNCHANGED <<operation, continueOnFail, nItems, pc, i, local, requests, returnData, chain>>

\* the text of a gas price of h hundredths of a uscrt: '0.07uscrt' for 7
HundredthsPrice(h) ==
    <<"0", ".", Digits[(h \div 10) + 1], Digits[(h % 10) + 1]>> \o Uscrt

\* the gasPrice parameter: the prices in hundredths, the price of the
\* specification's example, and prices with three and with no decimals
GasPrices ==
    {HundredthsPrice(h) : h \in 0..MaxHundredths}
        \cup { <<"0", ".", "1">> \o Uscrt,
               <<"0", ".", "0", "1", "7">> \o Uscrt,
               <<"2">> \o Uscrt }

\* the gasLimit parameter
GasStep == 50000
GasLimits == {g * GasStep : g \in 1..MaxGasSteps}

\* the fee of signAndBroadcastTx for a gas limit and a gas price
InitFee ==
    /\ InitIdle
    /\ \E gasLimit \in GasLimits, gasPrice \in GasPrices :
         calc = [function |-> "Fee", gasLimit |-> gasLimit, gasPrice |-> gasPrice,
                 done |-> FALSE, fee |-> NoFee]

ComputeFee ==
    /\ calc.function = "Fee"
    /\ ~calc.done
    /\ calc' = [calc EXCEPT !.done = TRUE, !.fee = Fee(calc.gasLimit, calc.gasPrice)]
    /\ Idle

NextFee == ComputeFee

SpecFee == InitFee /\ [][NextFee]_vars

\* text.replace(/[0-9.]/g, ''): every digit and every point is removed
RemoveDigitsAndPoints(text) ==
    LET Kept(c) == ~IsDigit(c) /\ c # "."
    IN  SelectSeq(text, Kept)

\* authInfo.fee of ibcTransfer and updateClient: denom is
\* gasPrice.replace(/[0-9.]/g, ''), amount is
\* (parseFloat(gasPrice) * gasLimit).toString(), the text of a double
IbcFee(gasLimit, gasPrice) ==
    [amount |-> << [denom |-> RemoveDigitsAndPoints(gasPrice),
                    amount |-> DoubleTimes(parseFloat(gasPrice), gasLimit)] >>,
     gas_limit |-> gasLimit]

\* the gasPrice parameter of ibcTransfer and updateClient: the prices in
\* uscrt, and a price in a denomination of an IBC token
IbcGasPrices ==
    GasPrices \cup { <<"0", ".", "2", "5", "i", "b", "c", "/", "2", "7", "A", "6">> }

\* the fee of ibcTransfer and updateClient for a gas limit and a gas price
InitIbcFee ==
    /\ InitIdle
    /\ \E gasLimit \in GasLimits, gasPrice \in IbcGasPrices :
         calc = [function |-> "IbcFee", gasLimit |-> gasLimit, gasPrice |-> gasPrice,
                 done |-> FALSE, fee |-> NoFee]

ComputeIbcFee ==
    /\ calc.function = "IbcFee"
    /\ ~calc.done
    /\ calc' = [calc EXCEPT !.done = TRUE, !.fee = IbcFee(calc.gasLimit, calc.gasPrice)]
    /\ Idle

NextIbcFee == ComputeIbcFee

SpecIbcFee == InitIbcFee /\ [][NextIbcFee]_vars

\* name = 'secretNetworkApi' of the class SecretNetworkApi
CredentialTypeName == "secretNetworkApi"

\* description.credentials[0].name of the node
NodeCredentialName == "secretnetworkApi"

\* the six handlers, by resource
Handlers ==
    {"smartContracts", "snip20Tokens", "snip721Tokens", "ibcOperations", "transactions",
     "accounts"}

\* the name each handler passes to this.getCredentials
GetCredentialsName(handler) == "secretnetworkApi"

\* the network property of a credential
Networks == {"mainnet", "testnet"}

\* the credentials the user can attach to the node: those of the type the
\* node's description lists
Attachable(store) == {k \in DOMAIN store : store[k].type = NodeCredentialName}

\* this.getCredentials(name) finds a credential: one attached to the node
\* whose type is name
CredentialFound(store, name) == \E k \in Attachable(store) : store[k].type = name

NotAsked == [asked |-> FALSE, created |-> 0, found |-> FALSE]

\* no credential exists and no handler has run
InitCredentials ==
    /\ InitIdle
    /\ calc = [function |-> "getCredentials", store |-> <<>>,
               lookups |-> [handler \in Handlers |-> NotAsked]]

\* the user creates a credential from the class SecretNetworkApi
CreateCredential ==
    /\ calc.function = "getCredentials"
    /\ Len(calc.store) < MaxCredentials
    /\ \E network \in Networks :
         calc' = [calc EXCEPT !.store =
                     Append(@, [type |-> CredentialTypeName, network |-> network])]
    /\ Idle

\* a handler starts and asks for its credentials
GetCredentials(handler) ==
    /\ calc.function = "getCredentials"
    /\ ~calc.lookups[handler].asked
    /\ calc' = [calc EXCEPT !.lookups[handler] =
           [asked |-> TRUE, created |-> Len(calc.store),
            found |-> CredentialFound(calc.store, GetCredentialsName(handler))]]
    /\ Idle

NextCredentials ==
    \/ CreateCredential
    \/ \E handler \in Handlers : GetCredentials(handler)

SpecCredentials == InitCredentials /\ [][NextCredentials]_vars

\* the timeoutHeight parameter of ibcTransfer
TimeoutHeights == -1..MaxTimeoutHeight

\* Date.now() at the model's first instant: milliseconds since the epoch
\* (2025-11-05T00:00:00Z)
Epoch == NaturalOf(<<"1", "7", "6", "2", "3", "0", "0", "8", "0", "0", "0", "0", "0">>)

\* the values Date.now() may return
Nows == {AddSmall(Epoch, t) : t \in 0..MaxClock}

\* (Date.now() + 600000) * 1000000
TimeoutMs == 600000
NsPerMs == 1000000

\* a value serialised as a JSON number, and the string '0'
JsonNumber(x) == [type |-> "number", value |-> x]
ZeroString == [type |-> "string", value |-> DoubleOf(<<>>)]

\* a transfer whose timestamp is the ten minutes alone, not an instant
IbcTransferMsgRelative(timeoutHeight, now) ==
    [type |-> "/ibc.applications.transfer.v1.MsgTransfer",
     timeout_height |->
         IF timeoutHeight > 0
         THEN << [revision_number |-> 0, revision_height |-> timeoutHeight] >>
         ELSE <<>>,
     timeout_timestamp |->
         IF timeoutHeight = 0
         THEN JsonNumber(DoubleTimes(DoubleOf(LimbsOf(TimeoutMs)), NsPerMs))
         ELSE ZeroString]

\* the MsgTransfer of ibcTransfer, reduced to its type and its timeouts:
\* timeout_height is undefined (left out by JSON.stringify) unless
\* timeoutHeight > 0; timeout_timestamp is a number when timeoutHeight === 0
\* and '0' otherwise
IbcTransferMsg(timeoutHeight, now) ==
    [type |-> "/ibc.applications.transfer.v1.MsgTransfer",
     timeout_height |->
         IF timeoutHeight > 0
         THEN << [revision_number |-> 0, revision_height |-> timeoutHeight] >>
         ELSE <<>>,
     timeout_timestamp |->
         IF timeoutHeight = 0
         THEN JsonNumber(DoubleTimes(DoubleOf(AddSmall(now, TimeoutMs)), NsPerMs))
         ELSE ZeroString]

NoMsg == [type |-> "", timeout_height |-> <<>>, timeout_timestamp |-> ZeroString]

\* the message of ibcTransfer for a timeoutHeight, built at some instant
InitIbcTransfer ==
    /\ InitIdle
    /\ \E timeoutHeight \in TimeoutHeights :
         calc = [function |-> "ibcTransfer", timeoutHeight |-> timeoutHeight,
                 now |-> <<>>, done |-> FALSE, msg |-> NoMsg]

BuildIbcTransfer ==
    /\ calc.function = "ibcTransfer"
    /\ ~calc.done
    /\ \E now \in Nows :
         calc' = [calc EXCEPT !.done = TRUE, !.now = now,
                              !.msg = IbcTransferMsg(calc.timeoutHeight, now)]
    /\ Idle

NextIbcTransfer == BuildIbcTransfer

SpecIbcTransfer == InitIbcTransfer /\ [][NextIbcTransfer]_vars

\* the chainId of the credentials: empty, the main network, the test network
ChainIds == {"", "secret-4", "pulsar-3"}

\* the fees of two gas limits at the default gas price
SignDocFees == {DefaultFee, Fee(GasStep, DefaultGasPrice)}

\* the messages of transferNft for two token ids
ExecuteMsgs ==
    { TransferNftMsg,
      [transfer_nft |-> [recipient |-> "secret1recipient", token_id |-> "2"]] }

\* what a submission is signed from: the credentials' chainId, the message
\* (body), the key and the fee (auth info), and the sequence and the
\* account number of the account lookup, either of which may be missing
Submissions ==
    [ chainId : ChainIds,
      executeMsg : ExecuteMsgs,
      privateKey : {Key1, Key2},
      fee : SignDocFees,
      sequence : {Missing} \cup 0..MaxSeq,
      account_number : {Missing} \cup 0..MaxSeq ]

\* the signDoc signAndBroadcastTx hashes and signs for a submission
SignDocOf(submission) ==
    SignedTxRaw(submission.chainId, ContractAddress, submission.executeMsg,
                KeyBuffer[submission.privateKey], submission.fee,
                AccountBody(submission.sequence, submission.account_number)
               ).signatures[1].hash[2]

\* two submissions
InitSignDoc ==
    /\ InitIdle
    /\ \E first \in Submissions, second \in Submissions :
         calc = [function |-> "SignDoc", done |-> FALSE,
                 first |-> first, second |-> second, signDocs |-> <<>>]

\* both are signed
ComputeSignDoc ==
    /\ calc.function = "SignDoc"
    /\ ~calc.done
    /\ calc' = [calc EXCEPT !.done = TRUE,
                            !.signDocs = <<SignDocOf(calc.first), SignDocOf(calc.second)>>]
    /\ Idle

NextSignDoc == ComputeSignDoc

SpecSignDoc == InitSignDoc /\ [][NextSignDoc]_vars

\* Math.random().toString(36).substring(2, 15): two draws
Randoms == {"4fzyo82mvyr", "k9x1c0q7hde"}

\* the entropy parameter of createViewingKey
Entropies == {"", "entropy"}

\* msg of createViewingKey: entropy || Math.random().toString(36)...
CreateViewingKeyMsg(entropy, random) ==
    [create_viewing_key |-> [entropy |-> IF entropy = "" THEN random ELSE entropy]]

\* the operations run twice: one of signAndBroadcastTx, and the two that
\* read the clock or draw a random number
RunOperations ==
    { [resource |-> "snip721Tokens", operation |-> "transferNft"],
      [resource |-> "ibcOperations", operation |-> "ibcTransfer"],
      [resource |-> "snip20Tokens", operation |-> "createViewingKey"] }

\* the parameters of an item of the operation; for transferNft also what
\* the network answers to the account lookup
RunParameters(op) ==
    IF op.operation = "transferNft"
    THEN [privateKey : {Key1, Key2}, sequence : 0..MaxSeq]
    ELSE IF op.operation = "ibcTransfer"
    THEN [timeoutHeight : TimeoutHeights]
    ELSE [entropy : Entropies]

\* the requests an execution of the operation issues for one item, given
\* what Date.now() and Math.random() return during it
RunRequests(op, parameters, now, random) ==
    IF op.operation = "transferNft"
    THEN LET privKeyBuffer == KeyBuffer[parameters.privateKey]
             address == getAddressFromPubKey(publicKeyCreate(privKeyBuffer))
         IN  << [method |-> "GET", endpoint |-> AccountsEndpoint, address |-> address],
                [method |-> "POST", endpoint |-> TxsEndpoint, mode |-> "BROADCAST_MODE_SYNC",
                 tx |-> SignedTxRaw(credentials.chainId, ContractAddress, TransferNftMsg,
                                    privKeyBuffer, DefaultFee,
                                    AccountBody(parameters.sequence,
                                                AccountNumberOf(address)))] >>
    ELSE IF op.operation = "ibcTransfer"
    THEN << [method |-> "POST", endpoint |-> TxsEndpoint, mode |-> "BROADCAST_MODE_SYNC",
             messages |-> << IbcTransferMsg(parameters.timeoutHeight, now) >>,
             signatures |-> <<>>] >>
    ELSE << [method |-> "POST", endpoint |-> TxsEndpoint, mode |-> "BROADCAST_MODE_SYNC",
             messages |-> << [type |-> "/secret.compute.v1beta1.MsgExecuteContract",
                              contract |-> ContractAddress,
                              msg |-> CreateViewingKeyMsg(parameters.entropy, random)] >>,
             signatures |-> <<>>] >>

\* the two executions
Runs == 1..2

NotRun == [done |-> FALSE, now |-> <<>>, random |-> "", requests |-> <<>>]

\* two executions are given the same operation and parameters
InitRuns ==
    /\ InitIdle
    /\ \E op \in RunOperations : \E parameters \in RunParameters(op) :
         calc = [function |-> "execute", operation |-> op, parameters |-> parameters,
                 runs |-> [r \in Runs |-> NotRun]]

\* an execution whose requests carry the number of executions before it,
\* kept in a variable of the module
RunCounting(r) ==
    /\ calc.function = "execute"
    /\ ~calc.runs[r].done
    /\ \E now \in Nows, random \in Randoms :
         calc' = [calc EXCEPT !.runs[r] =
             [done |-> TRUE, now |-> now, random |-> random,
              requests |-> << Cardinality({q \in Runs : calc.runs[q].done}) >>
                             \o RunRequests(calc.operation, calc.parameters, now, random)]]
    /\ Idle

\* execution r runs: it reads the clock and the random generator and issues
\* its requests
Run(r) ==
    /\ calc.function = "execute"
    /\ ~calc.runs[r].done
    /\ \E now \in Nows, random \in Randoms :
         calc' = [calc EXCEPT !.runs[r] =
             [done |-> TRUE, now |-> now, random |-> random,
              requests |-> RunRequests(calc.operation, calc.parameters, now, random)]]
    /\ Idle

NextRuns == \E r \in Runs : Run(r)

SpecRuns == InitRuns /\ [][NextRuns]_vars

\* denominations of balances, and the denom parameter of getBalance: none,
\* two that occur in balances and one that does not
BalanceDenoms == {"uscrt", "ibc/token"}
DenomFilters == {"", "uatom"} \cup BalanceDenoms

\* the entries of a balances list
Balances == [denom : BalanceDenoms, amount : {"1000000", "500000"}]

\* the lists of at most n entries
BalanceLists(n) == UNION {[1..m -> Balances] : m \in 0..n}

\* the bodies GET /cosmos/bank/v1beta1/balances/{address} resolves with:
\* with a balances list, and without one
BalanceResponses ==
    {[balances |-> balances, pagination |-> [next_key |-> "", total |-> Len(balances)]] :
         balances \in BalanceLists(MaxBalances)}
        \cup {[pagination |-> [next_key |-> "", total |-> 0]]}

\* the url of getBalance: the pagination query is added when denom is set
BalanceUrl(denom) ==
    [path |-> "/cosmos/bank/v1beta1/balances/",
     query |-> IF denom # ""
               THEN "pagination.key=&pagination.offset=0&pagination.limit=100&pagination.count_total=true&pagination.reverse=false"
               ELSE ""]

\* result.balances.filter((balance) => balance.denom === denom)
FilterByDenom(balances, denom) ==
    LET Matches(balance) == balance.denom = denom
    IN  SelectSeq(balances, Matches)

\* a getBalance that filters whenever the response has a balances list
BalanceResultUnguarded(response, denom) ==
    IF "balances" \in DOMAIN response
    THEN [response EXCEPT !.balances = FilterByDenom(@, denom)]
    ELSE response

\* the result of getBalance: if (denom && result.balances) the list is
\* replaced by the filtered one
BalanceResult(response, denom) ==
    IF denom # "" /\ "balances" \in DOMAIN response
    THEN [response EXCEPT !.balances = FilterByDenom(@, denom)]
    ELSE response

\* a getBalance item: its denom parameter and what the network will answer
InitGetBalance ==
    /\ InitIdle
    /\ \E denom \in DenomFilters, response \in BalanceResponses :
         calc = [function |-> "getBalance", done |-> FALSE, denom |-> denom,
                 response |-> response, url |-> BalanceUrl(""), result |-> response]

\* the request is sent and answered, and the result is built
GetBalance ==
    /\ calc.function = "getBalance"
    /\ ~calc.done
    /\ calc' = [calc EXCEPT !.done = TRUE,
                            !.url = BalanceUrl(calc.denom),
                            !.result = BalanceResult(calc.response, calc.denom)]
    /\ Idle

NextGetBalance == GetBalance

SpecGetBalance == InitGetBalance /\ [][NextGetBalance]_vars

----------------------------------------------------------------------------
(* Vocabulary of the properties, read off the request logs and the output *)

\* the positions of the log of e
Sent(e) == DOMAIN requests[e]

\* the request is a broadcast of a transaction built by signAndBroadcastTx
IsSignedSubmission(request) ==
    request.endpoint = TxsEndpoint /\ request.tx.kind = "txRaw"

\* the SignDoc the first signature of a transaction was computed over
SignedDocOf(tx) == tx.signatures[1].hash[2]

\* the request was answered and made its item fail: httpRequest threw, or
\* the account lookup's body had no account to read
RequestFailed(request) ==
    \/ request.response.state = "rejected"
    \/ /\ request.endpoint = AccountsEndpoint
       /\ request.response.state = "resolved"
       /\ request.response.account # "present"

\* the position of the last request sent for an item (0 if there is none)
LastRequestOf(e, item) ==
    LET ks == {k \in Sent(e) : requests[e][k].item = item}
    IN  IF ks = {} THEN 0 ELSE CHOOSE k \in ks : \A j \in ks : j <= k

----------------------------------------------------------------------------
(* C1: two signed submissions for the same address that were signed against *)
(* the same sequence without a re-fetch in between (one was accepted, the   *)
(* other then rejected for its stale sequence) are reported as exactly one  *)
(* success and one failure; the caller never receives two successes.        *)

\* the submission of item `item` of e carried the sequence its own lookup
\* returned, and its broadcast was answered with this code
SubmittedWith(e, item, address, sequence, code) ==
    \E k \in Sent(e) :
        /\ k > 1
        /\ IsSignedSubmission(requests[e][k])
        /\ requests[e][k].item = item
        /\ SenderOf(requests[e][k].tx) = address
        /\ requests[e][k].tx.auth_info.signer_infos[1].sequence = sequence
        /\ requests[e][k - 1].response.sequence = sequence
        /\ requests[e][k].response.code = code

C1_NeverTwoSuccesses ==
    \A e, f \in Executions :
      \A x \in DOMAIN returnData[e], y \in DOMAIN returnData[f] :
        \A address \in Addresses, sequence \in 0..(MaxSeq + 2) :
            ( /\ <<e, x>> # <<f, y>>
              /\ SubmittedWith(e, returnData[e][x].pairedItem, address, sequence, CodeOk)
              /\ SubmittedWith(f, returnData[f][y].pairedItem, address, sequence,
                               CodeSequenceMismatch) )
            => ( ~returnData[e][x].failed /\ returnData[f][y].failed )

(* C2: the account lookup and the following broadcast of a signed          *)
(* submission are a critical section per address: while one submission is  *)
(* between its lookup and its broadcast response, no other submission for  *)
(* the same address is.                                                    *)
InCriticalSection(e) == pc[e] \in {"awaitAccount", "awaitBroadcast"}

C2_CriticalSectionPerAddress ==
    \A e, f \in Executions :
        ( /\ e # f
          /\ InCriticalSection(e)
          /\ InCriticalSection(f) )
        => local[e].address # local[f].address

(* C3: every transaction an operation of the node builds and sends to the  *)
(* broadcast endpoint carries a non-empty signature.                       *)
C3_BroadcastsAreSigned ==
    \A e \in Executions : \A k \in Sent(e) :
        ( /\ requests[e][k].endpoint = TxsEndpoint
          /\ requests[e][k].tx.kind \in {"tx", "txRaw"} )
        => requests[e][k].tx.signatures # <<>>

(* C4: in a signed submission the broadcast request is sent only after the *)
(* account lookup of the same item has responded with an account and the   *)
(* signature over the transaction's SignDoc has been computed; when the    *)
(* lookup fails, no broadcast request is sent for that item.               *)
C4_PipelineOrder ==
    \A e \in Executions : \A k \in Sent(e) :
        /\ ( /\ IsSignedOperation(operation[e])
             /\ requests[e][k].endpoint = TxsEndpoint )
           => /\ k > 1
              /\ requests[e][k - 1].endpoint = AccountsEndpoint
              /\ requests[e][k - 1].item = requests[e][k].item
              /\ requests[e][k - 1].response.state = "resolved"
              /\ requests[e][k - 1].response.account = "present"
              /\ Len(requests[e][k].tx.signatures) = 1
              /\ SignedDocOf(requests[e][k].tx).body_bytes = requests[e][k].tx.body
              /\ SignedDocOf(requests[e][k].tx).auth_info_bytes
                     = requests[e][k].tx.auth_info
        /\ ( /\ requests[e][k].endpoint = AccountsEndpoint
             /\ RequestFailed(requests[e][k]) )
           => \A j \in Sent(e) :
                  requests[e][j].item = requests[e][k].item
                  => requests[e][j].endpoint # TxsEndpoint

\* a batch in which one item's lookup failed and another item was broadcast
C4_Witness ==
    \E e \in Executions : \E k, j \in Sent(e) :
        /\ requests[e][k].endpoint = AccountsEndpoint
        /\ RequestFailed(requests[e][k])
        /\ IsSignedSubmission(requests[e][j])
        /\ requests[e][j].response.state = "resolved"

(* C5: the signer sequence and the SignDoc account number of every signed  *)
(* transaction are the values the account lookup of the same invocation    *)
(* returned.                                                               *)
C5_IdentityFromOwnLookup ==
    \A e \in Executions : \A k \in Sent(e) :
        IsSignedSubmission(requests[e][k])
        => /\ k > 1
           /\ requests[e][k - 1].endpoint = AccountsEndpoint
           /\ requests[e][k - 1].item = requests[e][k].item
           /\ requests[e][k - 1].response.sequence # Missing
           /\ requests[e][k - 1].response.account_number # Missing
           /\ requests[e][k].tx.auth_info.signer_infos[1].sequence
                  = requests[e][k - 1].response.sequence
           /\ SignedDocOf(requests[e][k].tx).account_number
                  = requests[e][k - 1].response.account_number

(* C6: when the account lookup's body has no account or no sequence field, *)
(* the item fails and nothing is signed or broadcast for it; sequence 0 is *)
(* signed only when the body carried sequence 0.                           *)
C6_MissingAccountIsAnError ==
    \A e \in Executions : \A k \in Sent(e) :
        ( /\ requests[e][k].endpoint = AccountsEndpoint
          /\ requests[e][k].response.state = "resolved"
          /\ \/ requests[e][k].response.account # "present"
             \/ requests[e][k].response.sequence = Missing )
        => /\ \A j \in Sent(e) :
                  requests[e][j].item = requests[e][k].item
                  => requests[e][j].endpoint # TxsEndpoint
           /\ \A x \in DOMAIN returnData[e] :
                  returnData[e][x].pairedItem = requests[e][k].item
                  => returnData[e][x].failed
           /\ \A j \in Sent(e) :
                  ( /\ j = k + 1
                    /\ IsSignedSubmission(requests[e][j])
                    /\ requests[e][j].tx.auth_info.signer_infos[1].sequence = 0 )
                  => requests[e][k].response.sequence = 0

(* C7: an item whose broadcast response carries a non-zero result code is  *)
(* reported as a failure, never as a successful output entry.              *)
C7_NonZeroCodeIsAFailure ==
    \A e \in Executions : \A k \in Sent(e) :
        ( /\ requests[e][k].endpoint = TxsEndpoint
          /\ requests[e][k].response.state = "resolved"
          /\ requests[e][k].response.code # CodeOk )
        => \A x \in DOMAIN returnData[e] :
               returnData[e][x].pairedItem = requests[e][k].item
               => returnData[e][x].failed

(* C8: with continueOnFail, a handler never throws and returns exactly one  *)
(* entry per input item, in input order and paired with the item's index:  *)
(* {error: message} for an item whose request failed or whose parameters   *)
(* (private key, txData) were refused before any request, the response for *)
(* an item that succeeded; a failed item does not stop the items after it. *)
C8_PartialFailure ==
    \A e \in Executions :
        (continueOnFail[e] /\ pc[e] # "idle")
        => /\ pc[e] # "thrown"
           /\ Len(returnData[e]) = i[e]
           /\ pc[e] = "returned" => Len(returnData[e]) = nItems[e]
           /\ \A x \in DOMAIN returnData[e] :
                LET entry == returnData[e][x]
                    k == LastRequestOf(e, x - 1)
                IN  /\ entry.pairedItem = x - 1
                    /\ k = 0
                       => /\ entry.failed
                          /\ \/ /\ IsSignedOperation(operation[e])
                                /\ \E privateKey \in Keys :
                                      entry.error = KeyErrorMessage(KeyBuffer[privateKey])
                             \/ /\ IsSimulateTransaction(operation[e])
                                /\ entry.error = JsonErrorMessage
                    /\ k # 0
                       => /\ requests[e][k].response.state # "pending"
                          /\ RequestFailed(requests[e][k])
                             => /\ entry.failed
                                /\ entry.error =
                                     IF requests[e][k].response.state = "rejected"
                                     THEN ApiErrorMessage ELSE TypeErrorMessage
                          /\ ~RequestFailed(requests[e][k])
                             => /\ ~entry.failed
                                /\ entry.json = requests[e][k].response

\* a returned batch whose first item failed and whose second item succeeded
C8_Witness ==
    \E e \in Executions :
        /\ continueOnFail[e]
        /\ pc[e] = "returned"
        /\ Len(returnData[e]) >= 2
        /\ returnData[e][1].failed
        /\ ~returnData[e][2].failed

(* C9: without continueOnFail, the first failing item makes the handler    *)
(* throw: nothing is returned, and no request is sent after the failed one *)
(* (so none for any later item); the item that failed is the one whose     *)
(* last request failed, or one whose parameters (private key, txData) were *)
(* refused before any request.                                             *)
C9_AbortOnFirstFailure ==
    \A e \in Executions :
        (~continueOnFail[e] /\ pc[e] # "idle")
        => /\ \A k \in Sent(e) :
                RequestFailed(requests[e][k])
                => /\ pc[e] = "thrown"
                   /\ k = Len(requests[e])
                   /\ requests[e][k].item = i[e]
           /\ pc[e] = "thrown"
              => LET k == LastRequestOf(e, i[e])
                 IN  /\ \A j \in Sent(e) : requests[e][j].item <= i[e]
                     /\ IF k = 0
                        THEN \/ IsSignedOperation(operation[e])
                             \/ IsSimulateTransaction(operation[e])
                        ELSE k = Len(requests[e]) /\ RequestFailed(requests[e][k])
           /\ pc[e] = "returned"
              => /\ Len(returnData[e]) = nItems[e]
                 /\ \A x \in DOMAIN returnData[e] : ~returnData[e][x].failed

\* a handler that threw on an item with items still left in the batch
C9_Witness ==
    \E e \in Executions :
        /\ ~continueOnFail[e]
        /\ pc[e] = "thrown"
        /\ i[e] + 1 < nItems[e]

(* C10: no retries and no polling: the only case of two requests for one   *)
(* item is an answered account lookup followed by the broadcast; a failed  *)
(* request is never sent again and nothing follows a broadcast for its     *)
(* item, in any broadcast mode.                                            *)
C10_NoRetriesNoPolling ==
    \A e \in Executions : \A k, j \in Sent(e) :
        (k < j /\ requests[e][k].item = requests[e][j].item)
        => /\ requests[e][k].endpoint = AccountsEndpoint
           /\ ~RequestFailed(requests[e][k])
           /\ requests[e][j].endpoint = TxsEndpoint
           /\ j = k + 1

\* a returned batch with a rejected broadcast of a signed submission and a
\* broadcast in another mode than SYNC
C10_Witness ==
    \E e \in Executions :
        /\ pc[e] = "returned"
        /\ \E k \in Sent(e) :
             /\ requests[e][k].endpoint = TxsEndpoint
             /\ requests[e][k].response.state = "rejected"
             /\ \/ IsSignedSubmission(requests[e][k])
                \/ requests[e][k].mode # "BROADCAST_MODE_SYNC"

(* C11: the output entry of a successful item of a broadcast, a signed     *)
(* submission or a simulation is exactly the response body of the item's   *)
(* broadcast or simulate request, unmodified; for a signed submission it   *)
(* is the response of the broadcast, not that of the account lookup before *)
(* it.                                                                     *)
C11_OutputIsTheResponse ==
    \A e \in Executions : \A x \in DOMAIN returnData[e] :
        LET entry == returnData[e][x]
            k == LastRequestOf(e, entry.pairedItem)
        IN  ( /\ ~entry.failed
              /\ \/ IsSignedOperation(operation[e])
                 \/ IsUnsignedTxOperation(operation[e])
                 \/ IsBroadcastTransaction(operation[e])
                 \/ IsSimulateTransaction(operation[e]) )
            => /\ k # 0
               /\ requests[e][k].method = "POST"
               /\ requests[e][k].endpoint =
                      IF IsSimulateTransaction(operation[e])
                      THEN SimulateEndpoint ELSE TxsEndpoint
               /\ requests[e][k].response.state = "resolved"
               /\ entry.json = requests[e][k].response
               /\ IsSignedOperation(operation[e])
                  => /\ k > 1
                     /\ requests[e][k - 1].endpoint = AccountsEndpoint
                     /\ entry.json # requests[e][k - 1].response

\* a returned batch of signed submissions with a successful item
C11_Witness ==
    \E e \in Executions :
        /\ pc[e] = "returned"
        /\ IsSignedOperation(operation[e])
        /\ \E x \in DOMAIN returnData[e] :
             /\ ~returnData[e][x].failed
             /\ returnData[e][x].json.code = CodeOk

(* C12: for every gas price of the form <decimal>uscrt and every gas       *)
(* limit, the fee of signAndBroadcastTx is the integer ceiling of price    *)
(* times limit in denom uscrt, with gas_limit the supplied limit; the      *)
(* price 0.1uscrt with limit 200000 gives 20000.                           *)

\* the ceiling of gasLimit times the decimal the gas price writes, computed
\* in integers
ExactCeiling(gasLimit, gasPrice) ==
    LET a == LeadingDigits(gasPrice)
        b == IF a < Len(gasPrice) /\ gasPrice[a + 1] = "."
             THEN LeadingDigits(SubSeq(gasPrice, a + 2, Len(gasPrice)))
             ELSE 0
        numerator == IntOf(NaturalOf(SubSeq(gasPrice, 1, a)
                                         \o SubSeq(gasPrice, a + 2, a + 1 + b)))
    IN  (gasLimit * numerator + Pow10(b) - 1) \div Pow10(b)

C12_FeeIsCeiling ==
    (calc.function = "Fee" /\ calc.done)
    => /\ calc.fee.gas_limit = calc.gasLimit
       /\ calc.fee.amount =
              << [denom |-> Uscrt, amount |-> ExactCeiling(calc.gasLimit, calc.gasPrice)] >>
       /\ ( /\ calc.gasPrice = <<"0", ".", "1">> \o Uscrt
            /\ calc.gasLimit = 200000 )
          => calc.fee.amount[1].amount = 20000

(* C13: the message of an ibcTransfer with timeoutHeight 0 carries no     *)
(* height-based timeout, and its timeout timestamp is a number: an         *)
(* absolute time in nanoseconds strictly later than the instant the        *)
(* message was built.                                                      *)
C13_ZeroHeightGivesFutureTimestamp ==
    (calc.function = "ibcTransfer" /\ calc.done /\ calc.timeoutHeight = 0)
    => /\ calc.msg.timeout_height = <<>>
       /\ calc.msg.timeout_timestamp.type = "number"
       /\ Less(Trim(MulSmall(calc.now, NsPerMs, 0)),
               Ceil(calc.msg.timeout_timestamp.value))

\* a message with timeoutHeight 0 whose timestamp was rounded, being beyond
\* the integers a double holds exactly
C13_Witness ==
    /\ calc.function = "ibcTransfer"
    /\ calc.done
    /\ calc.timeoutHeight = 0
    /\ Ceil(calc.msg.timeout_timestamp.value)
           # Trim(MulSmall(AddSmall(calc.now, TimeoutMs), NsPerMs, 0))

(* C15: a signed operation whose private key is malformed (wrong length,   *)
(* not hex, or not a scalar of the curve) fails for that item before any   *)
(* request: an execution that has sent the account lookup or the           *)
(* broadcast of an item holds a well-formed private key for it.            *)
C15_MalformedKeySendsNothing ==
    \A e \in Executions :
        (IsSignedOperation(operation[e]) /\ InCriticalSection(e))
        => WellFormedKey(local[e].privateKey)

(* C16: every envelope signAndBroadcastTx sends has exactly one signer:    *)
(* one entry in signer_infos, holding the public key of the key that       *)
(* signed and the signing mode, exactly one signature, and exactly one     *)
(* message in its body, sent by the signer's address.                      *)
C16_ExactlyOneSigner ==
    \A e \in Executions : \A k \in DOMAIN requests[e] :
        LET tx == requests[e][k].tx
        IN  tx.kind = "txRaw"
            => /\ Len(tx.auth_info.signer_infos) = 1
               /\ Len(tx.signatures) = 1
               /\ Len(tx.body.messages) = 1
               /\ tx.auth_info.signer_infos[1].mode = "SIGN_MODE_DIRECT"
               /\ tx.auth_info.signer_infos[1].public_key
                      = publicKeyCreate(tx.signatures[1].key)
               /\ tx.body.messages[1].sender
                      = getAddressFromPubKey(tx.auth_info.signer_infos[1].public_key)

\* both well-formed keys have signed an envelope that was sent
C16_Witness ==
    \A privateKey \in {Key1, Key2} :
        \E e \in Executions : \E k \in DOMAIN requests[e] :
            /\ requests[e][k].tx.kind = "txRaw"
            /\ requests[e][k].tx.signatures[1].key = KeyBuffer[privateKey]

(* C17: broadcastTransaction sends, for each input item, exactly one POST  *)
(* to /cosmos/tx/v1beta1/txs, and the tx_bytes and the mode of the request *)
(* in flight are the values of the item's txBytes and mode parameters.     *)
C17_BroadcastAsSupplied ==
    \A e \in Executions :
        IsBroadcastTransaction(operation[e])
        => /\ Len(requests[e])
                  = i[e] + (IF pc[e] \in {"awaitResult", "thrown"} THEN 1 ELSE 0)
           /\ \A k \in DOMAIN requests[e] :
                  /\ requests[e][k].item = k - 1
                  /\ requests[e][k].method = "POST"
                  /\ requests[e][k].endpoint = TxsEndpoint
                  /\ requests[e][k].mode \in Modes
                  /\ requests[e][k].tx.kind = "txBytes"
           /\ pc[e] = "awaitResult"
              => LET request == requests[e][Len(requests[e])]
                 IN  /\ request.mode = local[e].mode
                     /\ request.tx.tx_bytes = local[e].txBytes
                     /\ request.tx.tx_bytes \in TxBytesValues

\* a second item's request is in flight with a mode other than SYNC, after
\* a first item that was sent with other tx_bytes
C17_Witness ==
    \E e \in Executions :
        /\ IsBroadcastTransaction(operation[e])
        /\ pc[e] = "awaitResult"
        /\ Len(requests[e]) = 2
        /\ requests[e][2].mode = "BROADCAST_MODE_BLOCK"
        /\ local[e].mode = "BROADCAST_MODE_BLOCK"
        /\ requests[e][1].tx.tx_bytes # requests[e][2].tx.tx_bytes

(* C20: two submissions that differ in the body, the auth info (the        *)
(* signer sequence included), the chain identifier or the account number   *)
(* are never signed over the same SignDoc.                                 *)
C20_SignDocIsInjective ==
    (calc.function = "SignDoc" /\ calc.done /\ calc.first # calc.second)
    => calc.signDocs[1] # calc.signDocs[2]

(* C21: the signature signAndBroadcastTx attaches verifies under the       *)
(* public key of the signing key over the SHA-256 digest of the envelope's *)
(* SignDoc, and does not verify over the digest of a SignDoc altered in    *)
(* its chain id, its account number, its body or its auth info.            *)

\* createHash('sha256').update(bytes).digest(): equal digests for equal
\* bytes only
Sha256(bytes) == <<"sha256", bytes>>

\* verification of a signature over a digest under a public key: it was
\* made with the key of that public key over that digest
ecdsaVerify(signature, hash, pubKey) ==
    /\ publicKeyCreate(signature.key) = pubKey
    /\ signature.hash = hash

\* the SignDoc of the envelope request k of e carries, rebuilt from the
\* envelope, the chain id and the account lookup before it
EnvelopeSignDoc(e, k) ==
    SignDoc(requests[e][k].tx.body, requests[e][k].tx.auth_info, credentials.chainId,
            AccountNumberOrDefault(requests[e][k - 1].response.account_number))

\* SignDocs that differ from signDoc in one field
AlteredSignDocs(signDoc) ==
    { [signDoc EXCEPT !.chain_id = "pulsar-3"],
      [signDoc EXCEPT !.account_number = @ + 1],
      [signDoc EXCEPT !.body_bytes.messages[1].contract = "secret1contracu"],
      [signDoc EXCEPT !.auth_info_bytes.signer_infos[1].sequence = @ + 1],
      [signDoc EXCEPT !.auth_info_bytes.fee.gas_limit = @ + 1] }

C21_SignatureVerifies ==
    \A e \in Executions : \A k \in DOMAIN requests[e] :
        requests[e][k].tx.kind = "txRaw"
        => LET tx == requests[e][k].tx
               pubKey == tx.auth_info.signer_infos[1].public_key
           IN  /\ ecdsaVerify(tx.signatures[1], Sha256(EnvelopeSignDoc(e, k)), pubKey)
               /\ \A altered \in AlteredSignDocs(EnvelopeSignDoc(e, k)) :
                      ~ecdsaVerify(tx.signatures[1], Sha256(altered), pubKey)

\* an envelope signed with the second key, for an account whose number is
\* not the default
C21_Witness ==
    \E e \in Executions : \E k \in DOMAIN requests[e] :
        /\ requests[e][k].tx.kind = "txRaw"
        /\ requests[e][k].tx.signatures[1].key = KeyBuffer[Key2]
        /\ requests[e][k - 1].response.account_number # Missing
        /\ requests[e][k].response.state = "resolved"

ReadsClock ==
    calc.operation.operation = "ibcTransfer" /\ calc.parameters.timeoutHeight = 0

\* the execution draws a random number: createViewingKey with no entropy
DrawsRandom ==
    calc.operation.operation = "createViewingKey" /\ calc.parameters.entropy = ""

KeyFreeMessages ==
    { "", ApiErrorMessage, TypeErrorMessage, JsonErrorMessage }
        \cup {KeyErrorMessage(KeyBuffer[privateKey]) : privateKey \in Keys}

C23_KeyNotExposed ==
    \A e \in Executions :
        /\ ~InCriticalSection(e) => local[e].privateKey = <<>>
        /\ \A k \in Sent(e) :
               LET request == requests[e][k]
               IN  /\ request.address \in Addresses \cup {NoAddress}
                   /\ request.mode \in Modes \cup {""}
                   /\ request.tx.tx_bytes \in TxBytesValues \cup {""}
                   /\ request.tx.kind = "txRaw"
                      => /\ request.tx.body
                                = TxBody(requests[e][k - 1].address, ContractAddress,
                                         TransferNftMsg)
                         /\ request.tx.auth_info.signer_infos[1].public_key
                                = publicKeyCreate(request.tx.signatures[1].key)
                         /\ request.tx.signatures[1].hash
                                = Sha256(EnvelopeSignDoc(e, k))
        /\ \A n \in DOMAIN returnData[e] :
               /\ returnData[e][n].error \in KeyFreeMessages
               /\ \/ returnData[e][n].json = PendingResponse
                  \/ \E k \in Sent(e) : returnData[e][n].json = requests[e][k].response

\* a batch in which one item's key was rejected and reported, and another
\* item's key signed a transaction that was broadcast
C23_Witness ==
    \E e \in Executions :
        /\ pc[e] = "returned"
        /\ \E n \in DOMAIN returnData[e] :
               returnData[e][n].error \in
                   {KeyErrorMessage(KeyBuffer[privateKey]) : privateKey \in Keys}
        /\ \E k \in Sent(e) :
               /\ requests[e][k].tx.kind = "txRaw"
               /\ requests[e][k].response.state = "resolved"

(* C24: getBalance with a non-empty denom returns the response with its    *)
(* balances list reduced to exactly the entries whose denom is the filter, *)
(* in their original order, all other fields unchanged; with an empty      *)
(* denom the response is returned as it came.                              *)

\* the positions of the entries of balances whose denom is denom
MatchingPositions(balances, denom) ==
    {k \in DOMAIN balances : balances[k].denom = denom}

\* the j-th smallest of a set of positions
NthPosition(positions, j) ==
    CHOOSE k \in positions : Cardinality({m \in positions : m < k}) = j - 1

C24_BalanceFilter ==
    (calc.function = "getBalance" /\ calc.done)
    => IF calc.denom # "" /\ "balances" \in DOMAIN calc.response
       THEN LET positions == MatchingPositions(calc.response.balances, calc.denom)
            IN  /\ DOMAIN calc.result = DOMAIN calc.response
                /\ calc.result.pagination = calc.response.pagination
                /\ Len(calc.result.balances) = Cardinality(positions)
                /\ \A j \in DOMAIN calc.result.balances :
                       calc.result.balances[j]
                           = calc.response.balances[NthPosition(positions, j)]
       ELSE calc.result = calc.response

\* a filter that kept two entries of three, dropping the one between them
C24_Witness ==
    /\ calc.function = "getBalance"
    /\ calc.done
    /\ calc.denom = "uscrt"
    /\ "balances" \in DOMAIN calc.response
    /\ Len(calc.response.balances) = 3
    /\ calc.response.balances[2].denom = "ibc/token"
    /\ calc.response.balances[1].amount # calc.response.balances[3].amount
    /\ Len(calc.result.balances) = 2

(* C25: for every timeoutHeight, zero, positive or negative, the message   *)
(* of ibcTransfer carries exactly one effective timeout: a height-based    *)
(* timeout with a positive revision height, or a timeout timestamp that is *)
(* not zero; never both and never neither.                                 *)

\* the message has a height-based timeout with a positive revision height
HasHeightTimeout(msg) ==
    /\ msg.timeout_height # <<>>
    /\ msg.timeout_height[1].revision_height > 0

\* the message has a timeout timestamp other than zero
HasTimestampTimeout(msg) == msg.timeout_timestamp.value # DoubleOf(<<>>)

C25_ExactlyOneTimeout ==
    (calc.function = "ibcTransfer" /\ calc.done)
    => (HasHeightTimeout(calc.msg) # HasTimestampTimeout(calc.msg))

(* C26: for ibcTransfer and updateClient, for every gas price of the form  *)
(* <decimal><denomination> and every gas limit, the fee amount is the      *)
(* integer ceiling of price times limit and the fee denom is the           *)
(* denomination of the gas price.                                          *)

\* what follows the decimal a gas price starts with
DenominationOf(gasPrice) ==
    LET a == LeadingDigits(gasPrice)
        b == IF a < Len(gasPrice) /\ gasPrice[a + 1] = "."
             THEN 1 + LeadingDigits(SubSeq(gasPrice, a + 2, Len(gasPrice)))
             ELSE 0
    IN  SubSeq(gasPrice, a + b + 1, Len(gasPrice))

\* the double is a whole number
IsWhole(x) == x.e >= 0 \/ \A k \in 0..(-x.e - 1) : Bit(x.m, k) = 0

C26_IbcFeeIsCeiling ==
    (calc.function = "IbcFee" /\ calc.done)
    => /\ calc.fee.amount[1].denom = DenominationOf(calc.gasPrice)
       /\ IsWhole(calc.fee.amount[1].amount)
       /\ Ceil(calc.fee.amount[1].amount)
              = LimbsOf(ExactCeiling(calc.gasLimit, calc.gasPrice))

(* C27: for any finite batch, when every request is eventually answered,   *)
(* each handler eventually returns or throws; it has sent at most two      *)
(* requests per item of a signed operation (one account lookup, one        *)
(* broadcast) and at most one per item of any other operation, and once it *)
(* has returned or thrown nothing of it is left to run.                    *)

\* every handler has returned or thrown
Ended == \A e \in Executions : pc[e] \in {"idle", "returned", "thrown"}

\* the requests of e for an item, to an endpoint
RequestsFor(e, item, endpoint) ==
    {k \in Sent(e) : requests[e][k].item = item /\ requests[e][k].endpoint = endpoint}

RequestsWithinBound ==
    \A e \in Executions : \A item \in 0..(nItems[e] - 1) :
        IF IsSignedOperation(operation[e])
        THEN /\ Cardinality(RequestsFor(e, item, AccountsEndpoint)) <= 1
             /\ Cardinality(RequestsFor(e, item, TxsEndpoint)) <= 1
             /\ Cardinality({k \in Sent(e) : requests[e][k].item = item}) <= 2
        ELSE Cardinality({k \in Sent(e) : requests[e][k].item = item}) <= 1

C27_TerminatesWithinBound ==
    /\ [](RequestsWithinBound /\ (Ended => ~ENABLED Next))
    /\ <>Ended

\* a full batch of a signed operation has returned after two requests for
\* each of its items
C27_Witness ==
    \E e \in Executions :
        /\ pc[e] = "returned"
        /\ IsSignedOperation(operation[e])
        /\ nItems[e] = MaxItems
        /\ Len(requests[e]) = 2 * MaxItems

(* C28: in abort mode, when item k of a batch of a signed operation fails, *)
(* the handler throws: the transactions of items 0..k-1 have been          *)
(* broadcast, no request follows the failure to undo them, and the output  *)
(* entries gathered for them, their broadcast responses, are never         *)
(* returned.                                                               *)
C28_AbortKeepsEarlierBroadcasts ==
    \A e \in Executions :
        ( /\ ~continueOnFail[e]
          /\ IsSignedOperation(operation[e])
          /\ \/ pc[e] = "thrown"
             \/ \E k \in Sent(e) : RequestFailed(requests[e][k]) )
        => /\ pc[e] = "thrown"
           /\ ~ENABLED Return(e)
           /\ Len(returnData[e]) = i[e]
           /\ \A item \in 0..(i[e] - 1) :
                  \E k \in Sent(e) :
                      /\ IsSignedSubmission(requests[e][k])
                      /\ requests[e][k].item = item
                      /\ requests[e][k].response.state = "resolved"
                      /\ returnData[e][item + 1].json = requests[e][k].response
           /\ \A k \in Sent(e) :
                  /\ requests[e][k].item <= i[e]
                  /\ requests[e][k].item = i[e] => k >= Len(requests[e]) - 1

\* the second item failed after the first item's transaction was accepted
\* by the network
C28_Witness ==
    \E e \in Executions :
        /\ ~continueOnFail[e]
        /\ IsSignedOperation(operation[e])
        /\ pc[e] = "thrown"
        /\ i[e] = 1
        /\ returnData[e][1].json.code = CodeOk
        /\ \E a \in Addresses : chain[a] > 0

(* C29: in every signed submission the address whose account is looked    *)
(* up, the sender of the message and the public key in signer_infos are    *)
(* derived from the private key supplied for the item, and the signature   *)
(* is made with that key; no other address or key enters the envelope.     *)

\* the requests of the log of e that belong to the item in progress
CurrentRequests(e) == {k \in Sent(e) : requests[e][k].item = i[e]}

C29_OneKeyPerSubmission ==
    \A e \in Executions :
        /\ InCriticalSection(e)
           => LET privKeyBuffer == KeyBuffer[local[e].privateKey]
                  pubKey == publicKeyCreate(privKeyBuffer)
              IN  \A k \in CurrentRequests(e) :
                      IF requests[e][k].endpoint = AccountsEndpoint
                      THEN requests[e][k].address = getAddressFromPubKey(pubKey)
                      ELSE LET tx == requests[e][k].tx
                           IN  /\ tx.kind = "txRaw"
                               /\ tx.signatures = << ecdsaSign(SignedDocOf(tx), privKeyBuffer) >>
                               /\ Len(tx.auth_info.signer_infos) = 1
                               /\ tx.auth_info.signer_infos[1].public_key = pubKey
                               /\ \A m \in DOMAIN tx.body.messages :
                                      tx.body.messages[m].sender
                                          = getAddressFromPubKey(pubKey)
        /\ \A k \in Sent(e) :
               IsSignedSubmission(requests[e][k])
               => /\ requests[e][k - 1].endpoint = AccountsEndpoint
                  /\ requests[e][k - 1].address = SenderOf(requests[e][k].tx)
                  /\ requests[e][k - 1].address
                         = getAddressFromPubKey(
                               publicKeyCreate(requests[e][k].tx.signatures[1].key))

\* the broadcast of an item signed with the second key is in flight after
\* an item signed with the first
C29_Witness ==
    \E e \in Executions :
        /\ pc[e] = "awaitBroadcast"
        /\ local[e].privateKey = Key2
        /\ \E k \in Sent(e) :
               /\ IsSignedSubmission(requests[e][k])
               /\ requests[e][k].tx.signatures[1].key = KeyBuffer[Key1]

(* C30: the credential type the node lists and asks for at run time is the *)
(* type the credentials class declares, so a handler that runs after a     *)
(* credential was created from the class finds it.                         *)
C30_CredentialIsFound ==
    calc.function = "getCredentials"
    => \A handler \in Handlers :
           (calc.lookups[handler].asked /\ calc.lookups[handler].created > 0)
           => calc.lookups[handler].found

====
